---- MODULE Spec2Model ----
(***************************************************************************)
(* A model of fs/zipfs.py: the write-staged archive backend (WriteZipFS)   *)
(* and the read-only archive backend (ReadZipFS).                          *)
(*                                                                         *)
(* SpecWrite runs several threads calling close() and write_zip() on one   *)
(* WriteZipFS instance, each method split at the points where another      *)
(* thread can interleave.  SpecRead runs several threads calling the       *)
(* methods of one ReadZipFS instance opened over an archive whose entry    *)
(* list is drawn in Init.                                                  *)
(***************************************************************************)
EXTENDS Integers, Sequences, FiniteSets, TLC

\* ---------------------------------------------------------------- bounds

\* Number of threads sharing one backend instance.
NumThreads == 2

\* Calls each thread makes on the Write Backend.
MaxCalls == 2

\* Entries in the archive a Read Backend is opened over.
MaxEntries == 2

\* The longest file line_iterator is called on.
MaxLen == 4

Threads == 1..NumThreads

\* The callers of the Read Backend: each is a thread that makes one call.
Readers == {1, 2}

VARIABLES
    \* ---- WriteZipFS
    wClosed,      \* FS._closed of the WriteZipFS instance
    tempClosed,   \* whether self._temp_fs has been closed
    wpc,          \* each thread's position inside close() / write_zip()
    wexc,         \* each thread's pending exception inside close()'s try block
    wcalls,       \* calls each thread has started
    wres,         \* each thread's last finished call
    nFlush,       \* invocations of compress.write_zip (the target is opened for writing)
    closeLog,     \* the finished close() calls, in the order they finished
    overlap,      \* whether two calls have ever been in progress at once
    scratch,      \* the nodes of self._temp_fs
    content,      \* the bytes of the files of self._temp_fs
    archive,      \* the archive at the target, as compress.write_zip last left it
    walked,       \* the tree and the bytes compress.write_zip last walked
    \* ---- ReadZipFS
    namelist,     \* self._zip.namelist()
    rClosed,      \* FS._closed of the ReadZipFS instance
    zipClosed,    \* whether self._zip has been closed
    dirId,        \* identity of self._directory_fs; 0 is None
    dirNodes,     \* the nodes of the MemoryFS self._directory_fs refers to
    nBuilt,       \* MemoryFS() constructions so far
    built,        \* how far the construction of the index has come
    lock,         \* owner of self._lock; 0 is free
    rpc,          \* each thread's position inside a ReadZipFS method
    rcur,         \* each thread's call in progress
    rres,         \* each thread's last finished call
    fileIsText,   \* whether self._file is a str, a path, and not a file object
    zipinfo,      \* the ZipInfo records of self._zip, one for each entry of namelist
    compression,  \* self.compression of the WriteZipFS instance
    encoding,     \* self.encoding of the WriteZipFS instance
    \* ---- line_iterator
    fileData,     \* the bytes of readable_file
    filePos,      \* the position of readable_file
    size,         \* the local size
    line,         \* the local line, joined
    byte,         \* the local byte
    lpc,          \* the position of the generator
    yielded,      \* the chunks yielded so far
    lineArgs      \* the position of the file and the size at the call

wvars == <<wClosed, tempClosed, wpc, wexc, wcalls, wres, nFlush, closeLog, overlap>>

rvars == <<namelist, rClosed, zipClosed, dirId, dirNodes, nBuilt, built, lock, rpc, rcur, rres>>

\* What no method of either class assigns after construction.
cvars == <<fileIsText, zipinfo, compression, encoding>>

lvars == <<fileData, filePos, size, line, byte, lpc, yielded, lineArgs>>

svars == <<scratch, content, archive, walked>>

\* What the methods of neither class assign.
xvars == <<cvars, lvars, svars>>

vars == <<wvars, rvars, xvars>>

\* An optional argument that was left out, or passed as None.
None == <<>>

\* ------------------------------------------------- names, paths and trees

\* An archive entry name or a path is a sequence of tokens, a token being a
\* path component or the separator.
Sep == "/"

\* The entry names an archive is drawn from: a, a/, a/b, a/b/, b/.
Names == { <<"a">>, <<"a", Sep>>, <<"a", Sep, "b">>, <<"a", Sep, "b", Sep>>, <<"b", Sep>> }

\* The paths the callers ask about: /, /a, /a/b, /b.
QueryPaths == { <<Sep>>, <<Sep, "a">>, <<Sep, "a", Sep, "b">>, <<Sep, "b">> }

\* The file modes the callers pass to openbin, each as its set of characters.
Modes == { {"r"}, {"w"}, {"a"}, {"r", "+"} }

ArchiveLists == UNION { [1..n -> Names] : n \in 0..MaxEntries }

\* abspath(normpath(path)) as the node key of a MemoryFS: the components.
PathOf(s) == SelectSeq(s, LAMBDA c : c # Sep)

\* str.endswith("/")
endswith(s) == Len(s) > 0 /\ s[Len(s)] = Sep

\* fs.path.dirname: what precedes the last separator.
dirname(s) ==
    LET seps == { i \in 1..Len(s) : s[i] = Sep }
    IN  IF seps = {} THEN <<>>
        ELSE SubSeq(s, 1, (CHOOSE i \in seps : \A j \in seps : j <= i) - 1)

Take(p, k) == SubSeq(p, 1, k)

\* A MemoryFS tree: a function from the node paths other than the root to
\* "dir" or "file".
EmptyTree == [p \in {} |-> "dir"]

Exists(tree, p) == p = <<>> \/ p \in DOMAIN tree

TypeOf(tree, p) == IF p = <<>> THEN "dir" ELSE tree[p]

Result(e, tree) == [err |-> e, tree |-> tree]

\* FS.makedirs over MemoryFS.makedir: get_intermediate_dirs walks up from the
\* path to the deepest existing node, which must be a directory; the missing
\* ancestors are made, then the directory itself.
makedirs(tree, p, recreate) ==
    LET k == CHOOSE i \in 0..Len(p) :
                 /\ Exists(tree, Take(p, i))
                 /\ \A j \in (i + 1)..Len(p) : ~Exists(tree, Take(p, j))
        made == { Take(p, j) : j \in (k + 1)..(Len(p) - 1) }
        tree1 == tree @@ [q \in made |-> "dir"]
    IN  IF TypeOf(tree, Take(p, k)) = "file" THEN Result("DirectoryExpected", tree)
        ELSE IF Exists(tree1, p)
                THEN Result(IF recreate THEN "none" ELSE "DirectoryExists", tree1)
                ELSE Result("none", tree1 @@ (p :> "dir"))

\* FS.create over MemoryFS.openbin: nothing when the path exists; otherwise a
\* new file under an existing parent directory.
create(tree, p) ==
    IF Exists(tree, p) THEN Result("none", tree)
    ELSE LET parent == Take(p, Len(p) - 1)
         IN  IF Exists(tree, parent) /\ TypeOf(tree, parent) = "dir"
                THEN Result("none", tree @@ (p :> "file"))
                ELSE Result("ResourceNotFound", tree)

\* A faulty variant of ApplyEntry: makedirs without recreate=True.
ApplyEntryNoRecreate(tree, zip_name) ==
    IF endswith(zip_name)
       THEN makedirs(tree, PathOf(zip_name), FALSE)
       ELSE LET r == makedirs(tree, PathOf(dirname(zip_name)), FALSE)
            IN  IF r.err # "none" THEN r ELSE create(r.tree, PathOf(zip_name))

\* A faulty variant of ApplyEntry: a file is created without its parent directories.
ApplyEntryNoParents(tree, zip_name) ==
    IF endswith(zip_name)
       THEN makedirs(tree, PathOf(zip_name), TRUE)
       ELSE create(tree, PathOf(zip_name))

\* The body of the construction loop (lines 239-244).
ApplyEntry(tree, zip_name) ==
    IF endswith(zip_name)
       THEN makedirs(tree, PathOf(zip_name), TRUE)
       ELSE LET r == makedirs(tree, PathOf(dirname(zip_name)), TRUE)
            IN  IF r.err # "none" THEN r ELSE create(r.tree, PathOf(zip_name))

\* The construction loop (lines 238-244) run over a whole entry list.
RECURSIVE BuildFrom(_, _)
BuildFrom(tree, names) ==
    IF names = <<>> THEN Result("none", tree)
    ELSE LET r == ApplyEntry(tree, Head(names))
         IN  IF r.err # "none" THEN r ELSE BuildFrom(r.tree, Tail(names))

\* MemoryFS.getinfo(path).is_dir, or the error it raises.
GetInfoBasic(tree, p) ==
    IF Exists(tree, p) THEN [out |-> "ok", val |-> TypeOf(tree, p) = "dir"]
    ELSE [out |-> "ResourceNotFound", val |-> FALSE]

\* MemoryFS.listdir(path): the names of the children, or the error it raises.
\* The order of the listing is left out: callers are given no order.
ListDir(tree, p) ==
    IF ~Exists(tree, p) THEN [out |-> "ResourceNotFound", val |-> {}]
    ELSE IF TypeOf(tree, p) = "file" THEN [out |-> "DirectoryExpected", val |-> {}]
    ELSE [out |-> "ok",
          val |-> { q[Len(q)] : q \in { x \in DOMAIN tree : Len(x) = Len(p) + 1 /\ Take(x, Len(p)) = p } }]

\* fs.path.normpath of a path that needs no rewriting: trailing separators
\* are stripped, the root is kept.
RECURSIVE normpath(_)
normpath(s) ==
    IF s = <<Sep>> \/ ~endswith(s) THEN s ELSE normpath(SubSeq(s, 1, Len(s) - 1))

\* fs.path.relpath: leading separators are stripped.
RECURSIVE relpath(_)
relpath(s) == IF s # <<>> /\ Head(s) = Sep THEN relpath(Tail(s)) ELSE s

\* fs.path.forcedir: a trailing separator is appended unless there is one.
forcedir(s) == IF endswith(s) THEN s ELSE Append(s, Sep)

\* The paths the scratch backend is written at: /a, /a/b, /b.
ScratchPaths == { <<"a">>, <<"a", "b">>, <<"b">> }

\* The bytes written to a file: none, or one.
Contents == { <<>>, <<"x">> }

\* The path of a node: every component after a separator.
RECURSIVE AbsPath(_)
AbsPath(p) == IF p = <<>> THEN <<>> ELSE <<Sep, Head(p)>> \o AbsPath(Tail(p))

\* The archive name of a path: root-relative, with a trailing separator for
\* a directory.
to_archive_name(path, is_directory) == relpath(IF is_directory THEN forcedir(path) ELSE path)

Files(tree) == { p \in DOMAIN tree : tree[p] = "file" }

Children(tree, p) == { q \in DOMAIN tree : Len(q) = Len(p) + 1 /\ Take(q, Len(p)) = p }

EmptyDirs(tree) == { p \in DOMAIN tree : tree[p] = "dir" /\ Children(tree, p) = {} }

\* What compress.write_zip writes for a tree: one entry for each file and one
\* directory marker for each empty directory.
Entries(tree, bytes) ==
    { [name |-> to_archive_name(AbsPath(p), FALSE), data |-> bytes[p]] : p \in Files(tree) }
    \cup { [name |-> to_archive_name(AbsPath(p), TRUE), data |-> <<>>] : p \in EmptyDirs(tree) }

\* The orders a walk can visit the entries in.
Orders(entries) ==
    { f \in [1..Cardinality(entries) -> entries] : \A i, j \in DOMAIN f : f[i] = f[j] => i = j }

\* No archive at the target, or a damaged one.
NoArchive == [written |-> FALSE, entries |-> <<>>]

\* The entry lists that are permutations of names.
Permuted(names) ==
    { [i \in 1..Len(names) |-> names[f[i]]] :
        f \in { g \in [1..Len(names) -> 1..Len(names)] : \A i, j \in 1..Len(names) : g[i] = g[j] => i = j } }

\* ------------------------------------------------------------ WriteZipFS

\* zipfile.ZIP_STORED is 0, zipfile.ZIP_DEFLATED is 8.
ZIP_STORED == <<0>>

ZIP_DEFLATED == <<8>>

\* The compression and encoding arguments callers pass.
Compressions == {ZIP_STORED, ZIP_DEFLATED}

Encodings == { <<"utf-8">>, <<"cp437">> }

\* A call: what it was given, what it found and did, and the compression
\* and encoding compress.write_zip was invoked with.
NoCall == [op |-> "none", sawClosed |-> FALSE, flushed |-> FALSE, failed |-> FALSE, raised |-> FALSE,
           compressionArg |-> None, encodingArg |-> None, compression |-> None, encoding |-> None]

\* compression or self.compression (line 187): a compression of None or 0
\* is false.
CompressionOr(arg, default) == IF arg # None /\ arg[1] # 0 THEN arg ELSE default

\* encoding or self.encoding (line 188): an encoding of None or "" is false.
EncodingOr(arg, default) == IF arg # None /\ arg[1] # "" THEN arg ELSE default

\* FS.isclosed
isclosed == wClosed

\* FS.close: marks the instance closed.
FSClose == wClosed' = TRUE

\* WriteZipFS.__init__ with the defaults of lines 122-123.
Defaults == compression = ZIP_DEFLATED /\ encoding = <<"utf-8">>

WInit ==
    /\ wClosed = FALSE
    /\ tempClosed = FALSE
    /\ wpc = [t \in Threads |-> "idle"]
    /\ wexc = [t \in Threads |-> FALSE]
    /\ wcalls = [t \in Threads |-> 0]
    /\ wres = [t \in Threads |-> NoCall]
    /\ nFlush = 0
    /\ closeLog = <<>>
    /\ overlap = FALSE
    /\ scratch = EmptyTree
    /\ content = EmptyTree
    /\ archive = NoArchive
    /\ walked = [tree |-> EmptyTree, content |-> EmptyTree]

\* Whether some thread other than t is inside a call.
OthersBusy(t) == \E u \in Threads \ {t} : wpc[u] # "idle"

\* A thread calls close(): line 154 reads isclosed().
CloseCall(t) ==
    /\ wpc[t] = "idle"
    /\ wcalls[t] < MaxCalls
    /\ wcalls' = [wcalls EXCEPT ![t] = @ + 1]
    /\ wres' = [wres EXCEPT ![t] = [NoCall EXCEPT !.op = "close", !.sawClosed = isclosed]]
    /\ wpc' = [wpc EXCEPT ![t] = IF isclosed THEN "c_super" ELSE "c_try"]
    /\ wexc' = [wexc EXCEPT ![t] = FALSE]
    /\ overlap' = (overlap \/ OthersBusy(t))
    /\ UNCHANGED <<wClosed, tempClosed, nFlush, closeLog, rvars, xvars>>

\* close() enters self.write_zip() (line 156), whose guard (line 183) reads
\* isclosed() again; when open, compress.write_zip is invoked on the target.
CloseWriteZip(t) ==
    /\ wpc[t] = "c_try"
    /\ IF isclosed
          THEN /\ wpc' = [wpc EXCEPT ![t] = "c_finally"]
               /\ UNCHANGED <<nFlush, wres>>
          ELSE /\ wpc' = [wpc EXCEPT ![t] = "c_flushing"]
               /\ nFlush' = nFlush + 1
               /\ wres' = [wres EXCEPT ![t].flushed = TRUE,
                                       ![t].compression = CompressionOr(None, compression),
                                       ![t].encoding = EncodingOr(None, encoding)]
    /\ UNCHANGED <<wClosed, tempClosed, wexc, wcalls, closeLog, overlap, rvars, xvars>>

\* compress.write_zip ends: it can fail (an I/O fault), and it does fail when
\* the scratch backend it walks has been closed; a failure leaves the target
\* absent or damaged.  Otherwise the target holds what the walk found, in
\* the order of the walk.
FlushEnd(t, from, to) ==
    /\ wpc[t] = from
    /\ \E ok \in BOOLEAN :
          /\ ok => ~tempClosed
          /\ wexc' = [wexc EXCEPT ![t] = ~ok]
          /\ wres' = [wres EXCEPT ![t].failed = ~ok]
          /\ IF ok
                THEN /\ \E entries \in Orders(Entries(scratch, content)) :
                           archive' = [written |-> TRUE, entries |-> entries]
                     /\ walked' = [tree |-> scratch, content |-> content]
                ELSE /\ archive' = NoArchive
                     /\ UNCHANGED walked
    /\ wpc' = [wpc EXCEPT ![t] = to]
    /\ UNCHANGED <<wClosed, tempClosed, wcalls, nFlush, closeLog, overlap, rvars, cvars, lvars,
                   scratch, content>>

CloseFlushEnd(t) == FlushEnd(t, "c_flushing", "c_finally")

\* A faulty variant of CloseFinally: the scratch backend is closed after the try
\* block instead of in a finally clause, so a failure skips it.
CloseFinallyNoRelease(t) ==
    /\ wpc[t] = "c_finally"
    /\ IF wexc[t]
          THEN /\ wpc' = [wpc EXCEPT ![t] = "idle"]
               /\ wres' = [wres EXCEPT ![t].raised = TRUE]
               /\ closeLog' = Append(closeLog, [wres[t] EXCEPT !.raised = TRUE])
               /\ UNCHANGED tempClosed
          ELSE /\ tempClosed' = TRUE
               /\ wpc' = [wpc EXCEPT ![t] = "c_super"]
               /\ UNCHANGED <<wres, closeLog>>
    /\ UNCHANGED <<wClosed, wexc, wcalls, nFlush, overlap, rvars, xvars>>

\* The finally clause (lines 157-158): self._temp_fs.close(); then a pending
\* exception leaves close() before line 159 is reached.
CloseFinally(t) ==
    /\ wpc[t] = "c_finally"
    /\ tempClosed' = TRUE
    /\ IF wexc[t]
          THEN /\ wpc' = [wpc EXCEPT ![t] = "idle"]
               /\ wres' = [wres EXCEPT ![t].raised = TRUE]
               /\ closeLog' = Append(closeLog, [wres[t] EXCEPT !.raised = TRUE])
          ELSE /\ wpc' = [wpc EXCEPT ![t] = "c_super"]
               /\ UNCHANGED <<wres, closeLog>>
    /\ UNCHANGED <<wClosed, wexc, wcalls, nFlush, overlap, rvars, xvars>>

\* Line 159: super(WriteZipFS, self).close(), and close() returns.
CloseSuper(t) ==
    /\ wpc[t] = "c_super"
    /\ FSClose
    /\ wpc' = [wpc EXCEPT ![t] = "idle"]
    /\ closeLog' = Append(closeLog, wres[t])
    /\ UNCHANGED <<tempClosed, wexc, wcalls, wres, nFlush, overlap, rvars, xvars>>

\* A faulty variant of WriteZipCall: the guard of line 183 is missing.
WriteZipCallUnguarded(t) ==
    /\ wpc[t] = "idle"
    /\ wcalls[t] < MaxCalls
    /\ wcalls' = [wcalls EXCEPT ![t] = @ + 1]
    /\ wpc' = [wpc EXCEPT ![t] = "z_flushing"]
    /\ nFlush' = nFlush + 1
    /\ wres' = [wres EXCEPT ![t] = [NoCall EXCEPT !.op = "write_zip", !.sawClosed = isclosed,
                                                  !.flushed = TRUE]]
    /\ wexc' = [wexc EXCEPT ![t] = FALSE]
    /\ overlap' = (overlap \/ OthersBusy(t))
    /\ UNCHANGED <<wClosed, tempClosed, closeLog, rvars, xvars>>

\* A thread calls write_zip() itself (lines 183-189): on a closed instance the
\* guard is false and the method returns None; otherwise compress.write_zip
\* is invoked on the target, with the arguments or the instance's settings.
write_zip(t, compressionArg, encodingArg) ==
    /\ wpc[t] = "idle"
    /\ wcalls[t] < MaxCalls
    /\ wcalls' = [wcalls EXCEPT ![t] = @ + 1]
    /\ LET call == [NoCall EXCEPT !.op = "write_zip", !.compressionArg = compressionArg,
                                  !.encodingArg = encodingArg]
       IN  IF isclosed
              THEN /\ wpc' = [wpc EXCEPT ![t] = "idle"]
                   /\ UNCHANGED nFlush
                   /\ wres' = [wres EXCEPT ![t] = [call EXCEPT !.sawClosed = TRUE]]
              ELSE /\ wpc' = [wpc EXCEPT ![t] = "z_flushing"]
                   /\ nFlush' = nFlush + 1
                   /\ wres' = [wres EXCEPT ![t] = [call EXCEPT
                                                      !.flushed = TRUE,
                                                      !.compression = CompressionOr(compressionArg, compression),
                                                      !.encoding = EncodingOr(encodingArg, encoding)]]
    /\ wexc' = [wexc EXCEPT ![t] = FALSE]
    /\ overlap' = (overlap \/ OthersBusy(t))
    /\ UNCHANGED <<wClosed, tempClosed, closeLog, rvars, xvars>>

\* write_zip() called without arguments.
WriteZipCall(t) == write_zip(t, None, None)

WriteZipFlushEnd(t) == FlushEnd(t, "z_flushing", "z_return")

\* write_zip() returns, or lets the failure of compress.write_zip through.
WriteZipReturn(t) ==
    /\ wpc[t] = "z_return"
    /\ wpc' = [wpc EXCEPT ![t] = "idle"]
    /\ wres' = [wres EXCEPT ![t].raised = wexc[t]]
    /\ UNCHANGED <<wClosed, tempClosed, wexc, wcalls, nFlush, closeLog, overlap, rvars, xvars>>

WNext ==
    \E t \in Threads :
        \/ CloseCall(t)
        \/ CloseWriteZip(t)
        \/ CloseFlushEnd(t)
        \/ CloseFinally(t)
        \/ CloseSuper(t)
        \/ WriteZipCall(t)
        \/ WriteZipFlushEnd(t)
        \/ WriteZipReturn(t)

\* A method WriteZipFS has from WrapFS is called: self.check(), then the
\* call is forwarded to the scratch backend, which checks that it is open.
Forwarded(t) == wpc[t] = "idle" /\ ~wClosed /\ ~tempClosed

\* makedir(path): a new directory under an existing one.
ScratchMakedir(t, p) ==
    /\ Forwarded(t)
    /\ ~Exists(scratch, p)
    /\ Exists(scratch, Take(p, Len(p) - 1)) /\ TypeOf(scratch, Take(p, Len(p) - 1)) = "dir"
    /\ scratch' = scratch @@ (p :> "dir")
    /\ UNCHANGED <<wvars, rvars, cvars, lvars, content, archive, walked>>

\* writebytes(path, data): a file is made, or written over, in an existing
\* directory.
ScratchWrite(t, p, data) ==
    /\ Forwarded(t)
    /\ Exists(scratch, p) => TypeOf(scratch, p) = "file"
    /\ Exists(scratch, Take(p, Len(p) - 1)) /\ TypeOf(scratch, Take(p, Len(p) - 1)) = "dir"
    /\ scratch' = [q \in DOMAIN scratch \cup {p} |-> IF q = p THEN "file" ELSE scratch[q]]
    /\ content' = [q \in DOMAIN content \cup {p} |-> IF q = p THEN data ELSE content[q]]
    /\ UNCHANGED <<wvars, rvars, cvars, lvars, archive, walked>>

\* remove(path): a file is removed.
ScratchRemove(t, p) ==
    /\ Forwarded(t)
    /\ Exists(scratch, p) /\ TypeOf(scratch, p) = "file"
    /\ scratch' = [q \in DOMAIN scratch \ {p} |-> scratch[q]]
    /\ content' = [q \in DOMAIN content \ {p} |-> content[q]]
    /\ UNCHANGED <<wvars, rvars, cvars, lvars, archive, walked>>

\* The one thread that uses the instance when its calls come one after the
\* other.
Writer == CHOOSE t \in Threads : TRUE

\* close() and write_zip() with any arguments, called by one thread.
FlushNext ==
    \E t \in {Writer} :
        \/ CloseCall(t)
        \/ CloseWriteZip(t)
        \/ CloseFlushEnd(t)
        \/ CloseFinally(t)
        \/ CloseSuper(t)
        \/ \E c \in Compressions \cup {None}, e \in Encodings \cup {None} : write_zip(t, c, e)
        \/ WriteZipFlushEnd(t)
        \/ WriteZipReturn(t)

\* The scratch backend is filled, flushed and closed by one thread.
RoundTripNext ==
    \E t \in {Writer} :
        \/ \E p \in ScratchPaths :
              \/ ScratchMakedir(t, p)
              \/ \E data \in Contents : ScratchWrite(t, p, data)
              \/ ScratchRemove(t, p)
        \/ CloseCall(t)
        \/ CloseWriteZip(t)
        \/ CloseFlushEnd(t)
        \/ CloseFinally(t)
        \/ CloseSuper(t)
        \/ WriteZipCall(t)
        \/ WriteZipFlushEnd(t)
        \/ WriteZipReturn(t)

\* ------------------------------------------------------------- ReadZipFS

NoCur == [op |-> "none", path |-> <<>>, mode |-> {}, ns |-> {}, stage |-> 0, i |-> 0, got |-> 0,
          gotComplete |-> FALSE, isdir |-> FALSE]

NoRes == [op |-> "none", path |-> <<>>, mode |-> {}, sawClosed |-> FALSE, out |-> "none", errpath |-> <<>>,
          isdir |-> FALSE, names |-> {}, zipname |-> <<>>, purpose |-> "none",
          ns |-> {}, info |-> {}, dtype |-> "none", perm |-> -1]

QueryOps == {"listdir", "getinfo", "readbytes"}

MutatingOps == {"setinfo", "makedir", "remove", "removedir"}

\* The characters of a mode that ask for writing (line 322).
WriteChars == {"w", "+", "a"}

\* The state of a ReadZipFS instance nobody has called yet.
RFresh ==
    /\ rClosed = FALSE
    /\ zipClosed = FALSE
    /\ dirId = 0
    /\ dirNodes = EmptyTree
    /\ nBuilt = 0
    /\ built = "none"
    /\ lock = 0
    /\ rpc = [t \in Readers |-> "idle"]
    /\ rcur = [t \in Readers |-> NoCur]
    /\ rres = [t \in Readers |-> NoRes]

\* A 32-bit external_attr as its two 16-bit halves.
Attr(hi, lo) == [hi |-> hi, lo |-> lo]

\* A ZipInfo record as far as getinfo reads it.
ZipInfo(create_system, external_attr) == [create_system |-> create_system, external_attr |-> external_attr]

\* ReadZipFS.__init__ (lines 206-212) given the path of an archive whose
\* records carry no attributes.
FromPath ==
    /\ fileIsText = TRUE
    /\ zipinfo = [i \in 1..Len(namelist) |-> ZipInfo(0, Attr(0, 0))]

\* ReadZipFS.__init__ (lines 206-212) over an archive.
RInit ==
    /\ namelist \in ArchiveLists
    /\ RFresh

\* A call of thread t ends with this result.
Finish(t, res) ==
    /\ rpc' = [rpc EXCEPT ![t] = "done"]
    /\ rcur' = [rcur EXCEPT ![t] = NoCur]
    /\ rres' = [rres EXCEPT ![t] = res]

Begin(t) == rpc[t] = "idle"

Res(op, path, out) == [NoRes EXCEPT !.op = op, !.path = path, !.sawClosed = rClosed, !.out = out]

\* The result of the call in progress c.
ResOf(c, out) == [Res(c.op, c.path, out) EXCEPT !.mode = c.mode, !.ns = c.ns]

\* Whether the tree holds a node for every entry and every ancestor of it.
Complete(tree) ==
    \A n \in 1..Len(namelist) :
        \A k \in 1..Len(PathOf(namelist[n])) : Take(PathOf(namelist[n]), k) \in DOMAIN tree

\* The mutating methods: self.check(), then raise ResourceReadOnly(path).
ReadOnlyOp(t, op, path) ==
    /\ Begin(t)
    /\ Finish(t, IF rClosed THEN Res(op, path, "FilesystemClosed")
                 ELSE [Res(op, path, "ResourceReadOnly") EXCEPT !.errpath = path])
    /\ UNCHANGED <<namelist, rClosed, zipClosed, dirId, dirNodes, nBuilt, built, lock, wvars, xvars>>

\* A faulty variant of makedir: the method raises without self.check().
makedirUnchecked(t, path) ==
    /\ Begin(t)
    /\ Finish(t, [Res("makedir", path, "ResourceReadOnly") EXCEPT !.errpath = path])
    /\ UNCHANGED <<namelist, rClosed, zipClosed, dirId, dirNodes, nBuilt, built, lock, wvars, xvars>>

setinfo(t, path) == ReadOnlyOp(t, "setinfo", path)

makedir(t, path) == ReadOnlyOp(t, "makedir", path)

remove(t, path) == ReadOnlyOp(t, "remove", path)

removedir(t, path) == ReadOnlyOp(t, "removedir", path)

\* The namespaces getinfo looks the archive up for (line 262).
ArchiveNamespaces == {"details", "access", "zip"}

\* getinfo, lines 249-257: validatepath, which checks that the instance is
\* open; the root is answered without the index and without the archive.
getinfo(t, path, namespaces) ==
    /\ Begin(t)
    /\ IF rClosed THEN Finish(t, [Res("getinfo", path, "FilesystemClosed") EXCEPT !.ns = namespaces])
       ELSE IF normpath(path) = <<Sep>>
               THEN Finish(t, [Res("getinfo", path, "ok") EXCEPT
                                  !.ns = namespaces, !.isdir = TRUE,
                                  !.info = {"basic"} \cup (namespaces \cap {"details"}),
                                  !.dtype = IF "details" \in namespaces THEN "directory" ELSE "none"])
       ELSE /\ rpc' = [rpc EXCEPT ![t] = "d_check"]
            /\ rcur' = [rcur EXCEPT ![t] = [NoCur EXCEPT !.op = "getinfo", !.path = path,
                                                         !.ns = namespaces, !.stage = 1]]
            /\ UNCHANGED rres
    /\ UNCHANGED <<namelist, rClosed, zipClosed, dirId, dirNodes, nBuilt, built, lock, wvars, xvars>>

\* listdir and readbytes start with self.check(); getinfo is called for the
\* basic namespace.
QueryCall(t, op, path) ==
    IF op = "getinfo" THEN getinfo(t, path, {})
    ELSE /\ Begin(t)
         /\ IF rClosed THEN Finish(t, Res(op, path, "FilesystemClosed"))
            ELSE /\ rpc' = [rpc EXCEPT ![t] = "d_check"]
                 /\ rcur' = [rcur EXCEPT ![t] = [NoCur EXCEPT !.op = op, !.path = path, !.stage = 1]]
                 /\ UNCHANGED rres
         /\ UNCHANGED <<namelist, rClosed, zipClosed, dirId, dirNodes, nBuilt, built, lock, wvars, xvars>>

\* openbin (lines 321-323): self.check(), then the mode is looked at.
openbin(t, path, mode) ==
    /\ Begin(t)
    /\ IF rClosed THEN Finish(t, [Res("openbin", path, "FilesystemClosed") EXCEPT !.mode = mode])
       ELSE IF mode \cap WriteChars # {}
               THEN Finish(t, [Res("openbin", path, "ResourceReadOnly") EXCEPT !.errpath = path, !.mode = mode])
       ELSE /\ rpc' = [rpc EXCEPT ![t] = "d_check"]
            /\ rcur' = [rcur EXCEPT ![t] = [NoCur EXCEPT !.op = "openbin", !.path = path,
                                                         !.mode = mode, !.stage = 1]]
            /\ UNCHANGED rres
    /\ UNCHANGED <<namelist, rClosed, zipClosed, dirId, dirNodes, nBuilt, built, lock, wvars, xvars>>

\* _directory, line 234: self.check().
DirCheck(t) ==
    /\ rpc[t] = "d_check"
    /\ IF rClosed THEN Finish(t, ResOf(rcur[t], "FilesystemClosed"))
       ELSE /\ rpc' = [rpc EXCEPT ![t] = "d_lock"]
            /\ UNCHANGED <<rcur, rres>>
    /\ UNCHANGED <<namelist, rClosed, zipClosed, dirId, dirNodes, nBuilt, built, lock, wvars, xvars>>

\* A faulty variant of DirLock: the accessor goes on without taking the lock.
DirLockNone(t) ==
    /\ rpc[t] = "d_lock"
    /\ rpc' = [rpc EXCEPT ![t] = "d_test"]
    /\ UNCHANGED <<namelist, rClosed, zipClosed, dirId, dirNodes, nBuilt, built, lock, rcur, rres, wvars, xvars>>

\* _directory, line 235: with self._lock, which blocks while another thread
\* holds it.
DirLock(t) ==
    /\ rpc[t] = "d_lock"
    /\ lock = 0
    /\ lock' = t
    /\ rpc' = [rpc EXCEPT ![t] = "d_test"]
    /\ UNCHANGED <<namelist, rClosed, zipClosed, dirId, dirNodes, nBuilt, built, rcur, rres, wvars, xvars>>

\* _directory, line 236: is anything cached?
DirTest(t) ==
    /\ rpc[t] = "d_test"
    /\ rpc' = [rpc EXCEPT ![t] = IF dirId = 0 THEN "d_new" ELSE "d_return"]
    /\ UNCHANGED <<namelist, rClosed, zipClosed, dirId, dirNodes, nBuilt, built, lock, rcur, rres, wvars, xvars>>

\* _directory, line 237: a new MemoryFS is stored in self._directory_fs
\* before the loop fills it.
DirNew(t) ==
    /\ rpc[t] = "d_new"
    /\ dirId' = nBuilt + 1
    /\ nBuilt' = nBuilt + 1
    /\ dirNodes' = EmptyTree
    /\ built' = "building"
    /\ rpc' = [rpc EXCEPT ![t] = "d_loop"]
    /\ rcur' = [rcur EXCEPT ![t].i = 1]
    /\ UNCHANGED <<namelist, rClosed, zipClosed, lock, rres, wvars, xvars>>

\* _directory, lines 238-244: one turn of the loop.  An error of makedirs or
\* create leaves the with block, which releases the lock, and the method.
DirLoop(t) ==
    /\ rpc[t] = "d_loop"
    /\ IF rcur[t].i > Len(namelist)
          THEN /\ rpc' = [rpc EXCEPT ![t] = "d_return"]
               /\ built' = "done"
               /\ UNCHANGED <<dirNodes, lock, rcur, rres>>
          ELSE LET r == ApplyEntry(dirNodes, namelist[rcur[t].i])
               IN  /\ dirNodes' = r.tree
                   /\ IF r.err = "none"
                         THEN /\ rcur' = [rcur EXCEPT ![t].i = @ + 1]
                              /\ UNCHANGED <<rpc, built, lock, rres>>
                         ELSE /\ built' = "failed"
                              /\ lock' = IF lock = t THEN 0 ELSE lock
                              /\ Finish(t, ResOf(rcur[t], r.err))
    /\ UNCHANGED <<namelist, rClosed, zipClosed, dirId, nBuilt, wvars, xvars>>

\* _directory, line 245: return self._directory_fs, leaving the with block.
DirReturn(t) ==
    /\ rpc[t] = "d_return"
    /\ lock' = IF lock = t THEN 0 ELSE lock
    /\ rpc' = [rpc EXCEPT ![t] = "use"]
    /\ rcur' = [rcur EXCEPT ![t].got = dirId, ![t].gotComplete = Complete(dirNodes)]
    /\ UNCHANGED <<namelist, rClosed, zipClosed, dirId, dirNodes, nBuilt, built, rres, wvars, xvars>>

\* A faulty variant of path_to_zip_name: no separator is appended for a directory.
path_to_zip_nameNoForcedir(tree, path) == relpath(normpath(path))

\* _path_to_zip_name (lines 225-228), given the index.
path_to_zip_name(tree, path) ==
    LET rel == relpath(normpath(path))
    IN  IF Exists(tree, PathOf(rel)) /\ TypeOf(tree, PathOf(rel)) = "dir" THEN forcedir(rel) ELSE rel

\* The next access to the index by the same call.
Again(t) ==
    /\ rpc' = [rpc EXCEPT ![t] = "d_check"]
    /\ rcur' = [rcur EXCEPT ![t].stage = @ + 1, ![t].got = 0, ![t].gotComplete = FALSE]
    /\ UNCHANGED rres

\* self._zip.getinfo(zip_name): the record of the last entry of that name;
\* KeyError when the archive has no entry of that name.
ZipGetInfo(zip_name) ==
    LET found == { i \in 1..Len(namelist) : namelist[i] = zip_name }
    IN  IF found = {} THEN [err |-> "KeyError", rec |-> ZipInfo(0, Attr(0, 0))]
        ELSE [err |-> "none", rec |-> zipinfo[CHOOSE i \in found : \A j \in found : j <= i]]

\* A faulty variant of PermissionsMode: the attribute is masked unshifted.
PermissionsModeUnshifted(external_attr) == external_attr.lo % 4096

\* zip_info.external_attr >> 16 & 0xFFF (line 293): the shift leaves the high
\* half, the mask its low twelve bits.
PermissionsMode(external_attr) == external_attr.hi % 4096

\* zip_info.external_attr and zip_info.create_system == 3 (line 290).
HasPermissions(zip_info) == zip_info.external_attr # Attr(0, 0) /\ zip_info.create_system = 3

\* getinfo, lines 259-262: the basic namespace out of the index, and whether
\* the archive is to be looked up.
GetinfoBasic(t, c, p) ==
    LET r == GetInfoBasic(dirNodes, p)
    IN  IF r.out = "ok" /\ c.ns \cap ArchiveNamespaces # {}
           THEN /\ rpc' = [rpc EXCEPT ![t] = "d_check"]
                /\ rcur' = [rcur EXCEPT ![t].stage = @ + 1, ![t].got = 0, ![t].gotComplete = FALSE,
                                        ![t].isdir = r.val]
                /\ UNCHANGED rres
           ELSE Finish(t, [ResOf(c, r.out) EXCEPT !.isdir = r.val,
                                                !.info = IF r.out = "ok" THEN {"basic"} ELSE {}])

\* A faulty variant of GetinfoArchive: a missing record is an error.
GetinfoArchiveStrict(t, c) ==
    LET zip_name == path_to_zip_name(dirNodes, c.path)
        z == ZipGetInfo(zip_name)
    IN  IF z.err # "none"
           THEN Finish(t, [ResOf(c, "ResourceNotFound") EXCEPT !.zipname = zip_name])
           ELSE Finish(t, [ResOf(c, "ok") EXCEPT
                              !.isdir = c.isdir, !.zipname = zip_name,
                              !.info = {"basic"} \cup (c.ns \cap {"details", "zip"})
                                       \cup (IF "access" \in c.ns /\ HasPermissions(z.rec) THEN {"access"} ELSE {}),
                              !.dtype = IF "details" \in c.ns
                                           THEN (IF c.isdir THEN "directory" ELSE "file") ELSE "none",
                              !.perm = IF "access" \in c.ns /\ HasPermissions(z.rec)
                                          THEN PermissionsMode(z.rec.external_attr) ELSE -1])

\* getinfo, lines 263-295: the record is looked up under the mapped name; a
\* missing record leaves the namespaces out.
GetinfoArchive(t, c) ==
    LET zip_name == path_to_zip_name(dirNodes, c.path)
        z == ZipGetInfo(zip_name)
    IN  IF z.err # "none"
           THEN Finish(t, [ResOf(c, "ok") EXCEPT !.isdir = c.isdir, !.zipname = zip_name, !.info = {"basic"}])
           ELSE Finish(t, [ResOf(c, "ok") EXCEPT
                              !.isdir = c.isdir, !.zipname = zip_name,
                              !.info = {"basic"} \cup (c.ns \cap {"details", "zip"})
                                       \cup (IF "access" \in c.ns /\ HasPermissions(z.rec) THEN {"access"} ELSE {}),
                              !.dtype = IF "details" \in c.ns
                                           THEN (IF c.isdir THEN "directory" ELSE "file") ELSE "none",
                              !.perm = IF "access" \in c.ns /\ HasPermissions(z.rec)
                                          THEN PermissionsMode(z.rec.external_attr) ELSE -1])

\* A faulty variant of Use: openbin goes on to the directory test without
\* the existence test of lines 325-326.
UseNoExistenceTest(t) ==
    /\ rpc[t] = "use"
    /\ LET c == rcur[t]
           p == PathOf(c.path)
           isfile == Exists(dirNodes, p) /\ TypeOf(dirNodes, p) = "file"
       IN  CASE c.op = "listdir" ->
                    LET r == ListDir(dirNodes, p)
                    IN  Finish(t, [ResOf(c, r.out) EXCEPT !.names = r.val])
             [] c.op = "getinfo" /\ c.stage = 1 -> GetinfoBasic(t, c, p)
             [] c.op = "getinfo" /\ c.stage = 2 -> GetinfoArchive(t, c)
             [] c.op = "openbin" /\ c.stage = 1 -> Again(t)
             [] c.op = "openbin" /\ c.stage = 2 ->
                    IF isfile THEN Again(t)
                    ELSE Finish(t, [ResOf(c, "FileExpected") EXCEPT !.errpath = c.path])
             [] c.op = "readbytes" /\ c.stage = 1 ->
                    IF isfile THEN Again(t)
                    ELSE Finish(t, [ResOf(c, "ResourceNotFound") EXCEPT !.errpath = c.path])
             [] OTHER ->
                    Finish(t, [ResOf(c, "ok") EXCEPT !.zipname = path_to_zip_name(dirNodes, c.path)])
    /\ UNCHANGED <<namelist, rClosed, zipClosed, dirId, dirNodes, nBuilt, built, lock, wvars, xvars>>

\* A faulty variant of Use: readbytes tests that the path exists, not that
\* it is a file.
UseReadbytesAnyNode(t) ==
    /\ rpc[t] = "use"
    /\ LET c == rcur[t]
           p == PathOf(c.path)
           isfile == Exists(dirNodes, p) /\ TypeOf(dirNodes, p) = "file"
       IN  CASE c.op = "listdir" ->
                    \* line 307
                    LET r == ListDir(dirNodes, p)
                    IN  Finish(t, [ResOf(c, r.out) EXCEPT !.names = r.val])
             [] c.op = "getinfo" /\ c.stage = 1 -> GetinfoBasic(t, c, p)
             [] c.op = "getinfo" /\ c.stage = 2 -> GetinfoArchive(t, c)
             [] c.op = "openbin" /\ c.stage = 1 ->
                    IF Exists(dirNodes, p) THEN Again(t)
                    ELSE Finish(t, [ResOf(c, "ResourceNotFound") EXCEPT !.errpath = c.path])
             [] c.op = "openbin" /\ c.stage = 2 ->
                    IF isfile THEN Again(t)
                    ELSE Finish(t, [ResOf(c, "FileExpected") EXCEPT !.errpath = c.path])
             [] c.op = "readbytes" /\ c.stage = 1 ->
                    IF Exists(dirNodes, p) THEN Again(t)
                    ELSE Finish(t, [ResOf(c, "ResourceNotFound") EXCEPT !.errpath = c.path])
             [] OTHER ->
                    Finish(t, [ResOf(c, "ok") EXCEPT !.zipname = path_to_zip_name(dirNodes, c.path)])
    /\ UNCHANGED <<namelist, rClosed, zipClosed, dirId, dirNodes, nBuilt, built, lock, wvars, xvars>>

\* What a method does with the index the accessor returned.
Use(t) ==
    /\ rpc[t] = "use"
    /\ LET c == rcur[t]
           p == PathOf(c.path)
           isfile == Exists(dirNodes, p) /\ TypeOf(dirNodes, p) = "file"
       IN  CASE c.op = "listdir" ->
                    \* line 307
                    LET r == ListDir(dirNodes, p)
                    IN  Finish(t, [ResOf(c, r.out) EXCEPT !.names = r.val])
             [] c.op = "getinfo" /\ c.stage = 1 -> GetinfoBasic(t, c, p)
             [] c.op = "getinfo" /\ c.stage = 2 -> GetinfoArchive(t, c)
             [] c.op = "openbin" /\ c.stage = 1 ->
                    \* lines 325-326
                    IF Exists(dirNodes, p) THEN Again(t)
                    ELSE Finish(t, [ResOf(c, "ResourceNotFound") EXCEPT !.errpath = c.path])
             [] c.op = "openbin" /\ c.stage = 2 ->
                    \* lines 327-328
                    IF isfile THEN Again(t)
                    ELSE Finish(t, [ResOf(c, "FileExpected") EXCEPT !.errpath = c.path])
             [] c.op = "readbytes" /\ c.stage = 1 ->
                    \* lines 352-353
                    IF isfile THEN Again(t)
                    ELSE Finish(t, [ResOf(c, "ResourceNotFound") EXCEPT !.errpath = c.path])
             [] OTHER ->
                    \* lines 330-331 and 354-356
                    Finish(t, [ResOf(c, "ok") EXCEPT !.zipname = path_to_zip_name(dirNodes, c.path)])
    /\ UNCHANGED <<namelist, rClosed, zipClosed, dirId, dirNodes, nBuilt, built, lock, wvars, xvars>>

\* ReadZipFS.close, line 345: super().close() marks the instance closed.
ReadClose(t) ==
    /\ Begin(t)
    /\ rClosed' = TRUE
    /\ rpc' = [rpc EXCEPT ![t] = "rc_zip"]
    /\ rcur' = [rcur EXCEPT ![t] = [NoCur EXCEPT !.op = "close"]]
    /\ UNCHANGED <<namelist, zipClosed, dirId, dirNodes, nBuilt, built, lock, rres, wvars, xvars>>

\* ReadZipFS.close, lines 346-347: self._zip.close().
ReadCloseZip(t) ==
    /\ rpc[t] = "rc_zip"
    /\ zipClosed' = TRUE
    /\ Finish(t, Res("close", <<>>, "ok"))
    /\ UNCHANGED <<namelist, rClosed, dirId, dirNodes, nBuilt, built, lock, wvars, xvars>>

\* The purposes the callers pass to geturl.
Purposes == {"download", "fs"}

\* geturl (lines 358-365): no self.check(); a zip:// URL for purpose "fs"
\* when the archive was given as a path, NoURL otherwise.
geturl(t, path, purpose) ==
    /\ Begin(t)
    /\ Finish(t, [Res("geturl", path, IF purpose = "fs" /\ fileIsText THEN "ok" ELSE "NoURL")
                     EXCEPT !.purpose = purpose])
    /\ UNCHANGED <<namelist, rClosed, zipClosed, dirId, dirNodes, nBuilt, built, lock, wvars, xvars>>

\* The modes that ask for reading only.
ReadModes == { m \in Modes : m \cap WriteChars = {} }

RNext ==
    \E t \in Readers :
        \/ \E path \in QueryPaths :
              \/ \E op \in QueryOps : QueryCall(t, op, path)
              \/ \E mode \in ReadModes : openbin(t, path, mode)
        \/ DirCheck(t)
        \/ DirLock(t)
        \/ DirTest(t)
        \/ DirNew(t)
        \/ DirLoop(t)
        \/ DirReturn(t)
        \/ Use(t)
        \/ ReadClose(t)
        \/ ReadCloseZip(t)

RONext ==
    \E t \in Readers :
        \/ \E path \in QueryPaths :
              \/ setinfo(t, path)
              \/ makedir(t, path)
              \/ remove(t, path)
              \/ removedir(t, path)
              \/ QueryCall(t, "listdir", path)
              \/ \E mode \in Modes : openbin(t, path, mode)
        \/ DirCheck(t)
        \/ DirLock(t)
        \/ DirTest(t)
        \/ DirNew(t)
        \/ DirLoop(t)
        \/ DirReturn(t)
        \/ Use(t)
        \/ ReadClose(t)
        \/ ReadCloseZip(t)

\* Every method of ReadZipFS.
AllNext ==
    \E t \in Readers :
        \/ \E path \in QueryPaths :
              \/ setinfo(t, path)
              \/ makedir(t, path)
              \/ remove(t, path)
              \/ removedir(t, path)
              \/ \E op \in QueryOps : QueryCall(t, op, path)
              \/ \E mode \in Modes : openbin(t, path, mode)
              \/ \E purpose \in Purposes : geturl(t, path, purpose)
        \/ DirCheck(t)
        \/ DirLock(t)
        \/ DirTest(t)
        \/ DirNew(t)
        \/ DirLoop(t)
        \/ DirReturn(t)
        \/ Use(t)
        \/ ReadClose(t)
        \/ ReadCloseZip(t)

\* The namespace sets the caller of getinfo asks for.
NamespaceSets == SUBSET ArchiveNamespaces

\* The one thread that calls getinfo.
Caller == CHOOSE t \in Readers : TRUE

\* getinfo called by one thread, with any namespaces.
InfoNext ==
    \E t \in {Caller} :
        \/ \E path \in QueryPaths, namespaces \in NamespaceSets : getinfo(t, path, namespaces)
        \/ DirCheck(t)
        \/ DirLock(t)
        \/ DirTest(t)
        \/ DirNew(t)
        \/ DirLoop(t)
        \/ DirReturn(t)
        \/ Use(t)

\* --------------------------------------------------------- line_iterator

\* The bytes of the files: two ordinary bytes and the newline.
LF == "LF"

Bytes == {"x", "y", LF}

BytesUpTo(n) == UNION { [1..k -> Bytes] : k \in 0..n }

\* line_iterator has not been called.
NoIteration ==
    /\ fileData = <<>>
    /\ filePos = 0
    /\ size = None
    /\ line = <<>>
    /\ byte = <<>>
    /\ lpc = "none"
    /\ yielded = <<>>
    /\ lineArgs = [pos |-> 0, size |-> None]

\* line_iterator(readable_file, size) is called on a file of at most
\* MaxLen bytes at any position, with a size of None, -1 or up to one more
\* than the length.
LInit ==
    /\ fileData \in BytesUpTo(MaxLen)
    /\ filePos \in 0..Len(fileData)
    /\ size \in {None} \cup { <<n>> : n \in -1..(MaxLen + 1) }
    /\ line = <<>>
    /\ byte = <<>>
    /\ lpc = "start"
    /\ yielded = <<>>
    /\ lineArgs = [pos |-> filePos, size |-> size]

\* readable_file.read(1): the next byte, or nothing at the end of the file.
Read1 == IF filePos < Len(fileData) THEN <<fileData[filePos + 1]>> ELSE <<>>

\* A faulty variant of ByteInNewline: byte == b"\n".
ByteIsNewline(b) == b = <<LF>>

\* byte in b"\n" (lines 84 and 93): true of the newline and of the empty
\* bytes read at the end of the file.
ByteInNewline(b) == b = <<LF>> \/ b = <<>>

\* Lines 77-80: the locals are set and the branch is chosen.
LineStart ==
    /\ lpc = "start"
    /\ line' = <<>>
    /\ byte' = <<"1">>
    /\ lpc' = IF size = None \/ size[1] < 0 THEN "unsized" ELSE "sized"
    /\ UNCHANGED <<fileData, filePos, size, yielded, lineArgs, wvars, rvars, cvars, svars>>

\* Lines 81-86: one turn of the loop without a size, or its end.
UnsizedTurn ==
    /\ lpc = "unsized"
    /\ IF byte = <<>>
          THEN /\ lpc' = "done"
               /\ UNCHANGED <<filePos, byte, line, yielded>>
          ELSE LET b == Read1
                   joined == line \o b
               IN  /\ byte' = b
                   /\ filePos' = filePos + Len(b)
                   /\ IF ByteInNewline(b)
                         THEN yielded' = Append(yielded, joined) /\ line' = <<>>
                         ELSE line' = joined /\ UNCHANGED yielded
                   /\ UNCHANGED lpc
    /\ UNCHANGED <<fileData, size, lineArgs, wvars, rvars, cvars, svars>>

\* Lines 89-95: one turn of the loop with a size, or its end.
SizedTurn ==
    /\ lpc = "sized"
    /\ IF byte = <<>> \/ size[1] = 0
          THEN /\ lpc' = "done"
               /\ UNCHANGED <<filePos, size, byte, line, yielded>>
          ELSE LET b == Read1
                   joined == line \o b
                   left == size[1] - Len(b)
               IN  /\ byte' = b
                   /\ filePos' = filePos + Len(b)
                   /\ size' = <<left>>
                   /\ IF ByteInNewline(b) \/ left = 0
                         THEN yielded' = Append(yielded, joined) /\ line' = <<>>
                         ELSE line' = joined /\ UNCHANGED yielded
                   /\ UNCHANGED lpc
    /\ UNCHANGED <<fileData, lineArgs, wvars, rvars, cvars, svars>>

LNext == LineStart \/ UnsizedTurn \/ SizedTurn

\* --------------------------------------------------------- specifications

InitWrite == WInit /\ namelist = <<>> /\ RFresh /\ FromPath /\ Defaults /\ NoIteration

\* One WriteZipFS instance shared by the threads.
SpecWrite == InitWrite /\ [][WNext]_vars

\* One WriteZipFS instance filled, flushed and closed by one thread.
SpecRoundTrip == InitWrite /\ [][RoundTripNext]_vars

InitRead == RInit /\ WInit /\ FromPath /\ Defaults /\ NoIteration

\* One ReadZipFS instance queried and closed by the readers.
SpecRead == InitRead /\ [][RNext]_vars

\* One ReadZipFS instance on which the readers also call the mutating methods.
SpecReadOnly == InitRead /\ [][RONext]_vars

\* ReadZipFS.__init__ (lines 206-212) given a path or a file object, over an
\* archive of at most one entry.
InitAll ==
    /\ RInit
    /\ Len(namelist) <= 1
    /\ WInit
    /\ fileIsText \in BOOLEAN
    /\ zipinfo = [i \in 1..Len(namelist) |-> ZipInfo(0, Attr(0, 0))]
    /\ Defaults
    /\ NoIteration

\* WriteZipFS.__init__ (lines 119-133) with any compression and encoding.
InitFlush ==
    /\ WInit
    /\ namelist = <<>>
    /\ RFresh
    /\ FromPath
    /\ compression \in Compressions
    /\ encoding \in Encodings
    /\ NoIteration

\* One WriteZipFS instance flushed with any arguments and closed.
SpecFlush == InitFlush /\ [][FlushNext]_vars

\* One ReadZipFS instance on which the readers call any method.
SpecAll == InitAll /\ [][AllNext]_vars

\* One ReadZipFS instance asked for the information of one path.
SpecInfo == InitRead /\ [][InfoNext]_vars

\* The origin systems the records carry: 0 is MS-DOS, 3 is UNIX.
CreateSystems == {0, 3}

\* The attributes the records carry: none, the MS-DOS directory bit, the low
\* half set, mode 0644, a regular file of mode 0644 (0x81A40000), a directory
\* of mode 0755 with the MS-DOS directory bit (0x41ED0010), all bits set.
ExternalAttrs ==
    { Attr(0, 0), Attr(0, 16), Attr(0, 65535), Attr(420, 0), Attr(33188, 0), Attr(16877, 16),
      Attr(65535, 65535) }

ZipInfos == { ZipInfo(c, e) : c \in CreateSystems, e \in ExternalAttrs }

\* ReadZipFS.__init__ (lines 206-212) over an archive of at most one entry,
\* with any attributes.
InitAccess ==
    /\ RInit
    /\ Len(namelist) <= 1
    /\ WInit
    /\ fileIsText = TRUE
    /\ zipinfo \in [1..Len(namelist) -> ZipInfos]
    /\ Defaults
    /\ NoIteration

\* One ReadZipFS instance asked for the information of one path, over
\* records of any attributes.
SpecAccess == InitAccess /\ [][InfoNext]_vars

\* line_iterator called on a file nothing else reads.
InitLines == LInit /\ WInit /\ namelist = <<>> /\ RFresh /\ FromPath /\ Defaults

\* One call of line_iterator, iterated to its end: the caller keeps asking
\* for the next chunk.
SpecLines == InitLines /\ [][LNext]_vars /\ WF_vars(LNext)

\* ----------------------------------------------------------------- claims

\* The close() calls that invoked compress.write_zip, finished or in progress.
CloseFlushes ==
    Cardinality({ i \in DOMAIN closeLog : closeLog[i].flushed })
    + Cardinality({ t \in Threads : wpc[t] # "idle" /\ wres[t].op = "close" /\ wres[t].flushed })

\* No flush started by close() has failed.
NoCloseFailed ==
    /\ \A i \in DOMAIN closeLog : ~closeLog[i].failed
    /\ \A t \in Threads : wpc[t] # "idle" /\ wres[t].op = "close" => ~wres[t].failed

\* C1: over any sequence of close() calls on one WriteZipFS, one after the
\* other, also when the first one's serialization fails, the flush is invoked
\* at most once and every close() after the first flushes nothing and raises
\* nothing.
C1_CloseIdempotent ==
    ~overlap =>
        /\ CloseFlushes <= 1
        /\ \A i \in 2..Len(closeLog) : ~closeLog[i].flushed /\ ~closeLog[i].raised

\* C2: every close() that has finished left the scratch backend closed, and it
\* raised exactly when its serialization failed.
C2_ScratchReleased ==
    \A i \in DOMAIN closeLog :
        /\ tempClosed
        /\ closeLog[i].raised <=> closeLog[i].failed

\* C2 witness: a close() whose serialization failed has finished, raising.
C2_Witness ==
    \E i \in DOMAIN closeLog : closeLog[i].flushed /\ closeLog[i].failed /\ closeLog[i].raised

\* C3: concurrent close() calls serialize: never are two of them inside
\* compress.write_zip at once, and as long as no flush failed at most one of
\* them has flushed.
C3_CloseSerialized ==
    /\ Cardinality({ t \in Threads : wpc[t] = "c_flushing" }) <= 1
    /\ NoCloseFailed => CloseFlushes <= 1

InLockedPart == { t \in Readers : rpc[t] \in {"d_test", "d_new", "d_loop", "d_return"} }

\* C5: the index is constructed at most once per ReadZipFS: one thread at a
\* time is past the lock, it holds the lock, no second MemoryFS is ever made
\* and every caller is handed the one cached object.
C5_IndexBuiltOnce ==
    /\ nBuilt <= 1
    /\ Cardinality(InLockedPart) <= 1
    /\ \A t \in InLockedPart : lock = t
    /\ \A t \in Readers : rcur[t].got # 0 => rcur[t].got = dirId /\ dirId = 1

\* C5 witness: one caller is filling the index while another waits for the
\* lock.
C5_Witness ==
    \E t, u \in Readers : rpc[t] = "d_loop" /\ rcur[t].i > 1 /\ rpc[u] = "d_lock"

\* C6: whenever the accessor hands the cached index to a caller, the index
\* holds a node for every archive entry and every ancestor of it.
C6_NoPartialIndex ==
    \A t \in Readers : rpc[t] = "use" => rcur[t].gotComplete

\* The paths an entry list names as files, and as directories (named so, or
\* an ancestor of an entry).
FilePaths(names) == { PathOf(names[i]) : i \in { j \in 1..Len(names) : ~endswith(names[j]) } }

DirPaths(names) ==
    { PathOf(names[i]) : i \in { j \in 1..Len(names) : endswith(names[j]) } }
    \cup UNION { { Take(PathOf(names[i]), k) : k \in 1..(Len(PathOf(names[i])) - 1) } : i \in 1..Len(names) }

\* No path is named both as a file and as a directory.
Consistent(names) == FilePaths(names) \cap DirPaths(names) = {}

\* Every entry has a node of the type its name tells, under directories.
EntriesIndexed(tree, names) ==
    \A i \in 1..Len(names) :
        LET p == PathOf(names[i])
        IN  /\ p \in DOMAIN tree
            /\ tree[p] = IF endswith(names[i]) THEN "dir" ELSE "file"
            /\ \A k \in 1..(Len(p) - 1) : Take(p, k) \in DOMAIN tree /\ tree[Take(p, k)] = "dir"

\* C7 as claimed: after construction every entry name has an index node of
\* the matching type and every proper ancestor is a directory node.
C7_EntriesIndexed == built = "done" => EntriesIndexed(dirNodes, namelist)

\* C7 as amended: over an entry list that names no path both as a file and
\* as a directory, construction does not fail, and after it every entry name
\* has an index node of the matching type and every proper ancestor is a
\* directory node.
C7_EntriesIndexedConsistent ==
    Consistent(namelist) =>
        /\ built # "failed"
        /\ built = "done" => EntriesIndexed(dirNodes, namelist)

\* C7 witness: the archive holds a/b and no a/, and the index built from it
\* has /a as a directory whose only child is b.
C7_Witness ==
    /\ built = "done"
    /\ Consistent(namelist)
    /\ \E i \in 1..Len(namelist) : namelist[i] = <<"a", Sep, "b">>
    /\ \A i \in 1..Len(namelist) : namelist[i] # <<"a", Sep>>
    /\ GetInfoBasic(dirNodes, <<"a">>) = [out |-> "ok", val |-> TRUE]
    /\ ListDir(dirNodes, <<"a">>) = [out |-> "ok", val |-> {"b"}]

\* The construction has run to its end or to an error.
BuildOver == built \in {"done", "failed"}

\* The outcome of the construction as the instance holds it.
Outcome == Result(IF built = "done" THEN "none" ELSE "error", dirNodes)

Normal(r) == Result(IF r.err = "none" THEN "none" ELSE "error", r.tree)

\* C8 as claimed: every permutation of the entry list is constructed into
\* the same tree.
C8_OrderIndependent ==
    BuildOver => \A perm \in Permuted(namelist) : Normal(BuildFrom(EmptyTree, perm)) = Outcome

\* C8 as amended: every permutation of an entry list that names no path both
\* as a file and as a directory is constructed, without error, into the same
\* tree.
C8_OrderIndependentConsistent ==
    Consistent(namelist) /\ BuildOver =>
        /\ built = "done"
        /\ \A perm \in Permuted(namelist) : BuildFrom(EmptyTree, perm) = Result("none", dirNodes)

\* C8 witness: an index has been built from a list in which a file comes
\* before the entry of its own directory.
C8_Witness ==
    /\ built = "done"
    /\ Consistent(namelist)
    /\ \E i, j \in 1..Len(namelist) :
          i < j /\ namelist[i] = <<"a", Sep, "b">> /\ namelist[j] = <<"a", Sep>>

\* The entry name of a directory path: its components joined, with a
\* trailing separator.
RECURSIVE DirName(_)
DirName(p) == IF p = <<>> THEN <<>> ELSE <<Head(p), Sep>> \o DirName(Tail(p))

\* The directories some file entry lies under that have no entry of their own.
ImpliedDirs(names) ==
    { d \in UNION { { Take(PathOf(names[i]), k) : k \in 1..(Len(PathOf(names[i])) - 1) } :
                        i \in { j \in 1..Len(names) : ~endswith(names[j]) } } :
        \A i \in 1..Len(names) : names[i] # DirName(d) }

\* The entry list with one more name put in after position k.
Inserted(names, k, name) == SubSeq(names, 1, k) \o <<name>> \o SubSeq(names, k + 1, Len(names))

\* What getinfo(path).is_dir and listdir(path) answer on every path, given
\* the outcome of the construction.
Answers(r) ==
    [path \in QueryPaths |->
        IF r.err # "none" THEN <<r.err>>
        ELSE <<GetInfoBasic(r.tree, PathOf(path)), ListDir(r.tree, PathOf(path))>>]

\* The archives equal to the entry list plus the entry of one implied directory.
WithExplicitDir(names) ==
    { Inserted(names, k, DirName(d)) : k \in 0..Len(names), d \in ImpliedDirs(names) }

\* C9 as claimed: an archive with a file under a directory d that has no
\* entry, and the same archive with the entry d/ added, answer is_directory
\* and list_children alike on every path.
C9_ImpliedDirEquivalence ==
    BuildOver =>
        \A other \in WithExplicitDir(namelist) :
            Answers(Normal(BuildFrom(EmptyTree, other))) = Answers(Outcome)

\* C9 as amended: the same, for archives whose entry list names no path both
\* as a file and as a directory.
C9_ImpliedDirEquivalenceConsistent ==
    Consistent(namelist) /\ BuildOver =>
        \A other \in WithExplicitDir(namelist) :
            Answers(Normal(BuildFrom(EmptyTree, other))) = Answers(Outcome)

\* C9 witness: an index has been built over an archive with an implied
\* directory.
C9_Witness == built = "done" /\ Consistent(namelist) /\ ImpliedDirs(namelist) # {}

\* The call reader t finishes in this step is a mutating one.
MutatingCallEnds(t) ==
    /\ rres[t].op = "none"
    /\ \/ rres'[t].op \in MutatingOps
       \/ rres'[t].op = "openbin" /\ rres'[t].mode \cap WriteChars # {}

IndexAndArchiveUnchanged == UNCHANGED <<namelist, dirId, dirNodes, built>>

\* C10 as claimed: in every state of the instance a mutating call fails with
\* ResourceReadOnly carrying the path and changes neither the archive nor the
\* index.
C10_MutatorsReadOnly ==
    [][\A t \in Readers :
          MutatingCallEnds(t) =>
              /\ rres'[t].out = "ResourceReadOnly"
              /\ rres'[t].errpath = rres'[t].path
              /\ IndexAndArchiveUnchanged]_vars

\* C10 as amended: a mutating call on an open instance fails with
\* ResourceReadOnly carrying the path, on a closed instance it fails with
\* FilesystemClosed, and in both cases it changes neither the archive nor the
\* index.
C10_MutatorsReadOnlyWhileOpen ==
    [][\A t \in Readers :
          MutatingCallEnds(t) =>
              /\ IF rClosed THEN rres'[t].out = "FilesystemClosed"
                 ELSE rres'[t].out = "ResourceReadOnly" /\ rres'[t].errpath = rres'[t].path
              /\ IndexAndArchiveUnchanged]_vars

\* C10 witness: a mutating call has failed with ResourceReadOnly, carrying
\* its path, on an instance whose index is built and not empty.
C10_Witness ==
    \E t \in Readers :
        /\ rres[t].op \in MutatingOps
        /\ rres[t].out = "ResourceReadOnly"
        /\ rres[t].errpath = rres[t].path
        /\ built = "done"
        /\ dirNodes # EmptyTree

\* The read-mode openbin call of reader t has ended, on an instance that was
\* open for the whole call.
OpenbinReadEnded(t) ==
    /\ rpc[t] = "done"
    /\ rres[t].op = "openbin"
    /\ rres[t].mode \cap WriteChars = {}
    /\ ~rres[t].sawClosed

\* What the index tells about a path: missing, a directory or a file.
IndexKind(tree, path) ==
    IF ~Exists(tree, PathOf(path)) THEN "missing" ELSE TypeOf(tree, PathOf(path))

\* openbin in read mode answers by the index, tests existence before the
\* type, and maps the path to an archive name only for a file.
OpenbinByIndex ==
    /\ \A t \in Readers :
          OpenbinReadEnded(t) =>
              LET kind == IndexKind(dirNodes, rres[t].path)
              IN  /\ kind = "missing" => rres[t].out = "ResourceNotFound" /\ rres[t].errpath = rres[t].path
                  /\ kind = "dir" => rres[t].out = "FileExpected" /\ rres[t].errpath = rres[t].path
                  /\ kind = "file" => rres[t].out = "ok"
                  /\ rres[t].zipname # <<>> <=> rres[t].out = "ok"
    /\ \A t \in Readers :
          rcur[t].op = "openbin" =>
              /\ rcur[t].stage >= 2 => IndexKind(dirNodes, rcur[t].path) # "missing"
              /\ rcur[t].stage >= 3 => IndexKind(dirNodes, rcur[t].path) = "file"

\* C11 as claimed: on an open ReadZipFS, openbin in read mode raises
\* ResourceNotFound for a path missing from the index, FileExpected for a
\* directory of the index (the root included), and returns a stream
\* otherwise; existence is tested before the type and the archive is
\* consulted only after both tests pass.
C11_OpenbinRead == OpenbinByIndex

\* C11 as amended: the same, over an archive whose entry list names no path
\* both as a file and as a directory (over any other archive the call may
\* raise DirectoryExpected out of the construction of the index).
C11_OpenbinReadConsistent == Consistent(namelist) => OpenbinByIndex

\* C11 witness: over an archive holding a/b and no a/, one openbin has
\* raised FileExpected for /a and another has returned a stream for /a/b.
C11_Witness ==
    /\ Consistent(namelist)
    /\ \A i \in 1..Len(namelist) : namelist[i] # <<"a", Sep>>
    /\ \E t, u \in Readers :
          /\ OpenbinReadEnded(t) /\ rres[t].path = <<Sep, "a">> /\ rres[t].out = "FileExpected"
          /\ OpenbinReadEnded(u) /\ rres[u].path = <<Sep, "a", Sep, "b">> /\ rres[u].out = "ok"

\* Reader t starts a call other than close() in this step, on a closed
\* instance.
CallOnClosed(t) == rClosed /\ rpc[t] = "idle" /\ rpc'[t] # "idle" /\ rcur'[t].op # "close"

\* The call reader t starts in this step ends in it, with an error.
FailsAtOnce(t) == rpc'[t] = "done" /\ rres'[t].out # "ok"

\* C12: once a ReadZipFS is closed it stays closed, and every call made on
\* it from then on (getinfo, listdir, openbin, readbytes, geturl, setinfo,
\* makedir, remove, removedir, with any argument) raises an error instead of
\* returning a result.
C12_ClosedCallsFail ==
    [][/\ rClosed => rClosed'
       /\ \A t \in Readers : CallOnClosed(t) => FailsAtOnce(t)]_vars

\* The same for every method but geturl.
ClosedCallsFailButGeturl ==
    [][/\ rClosed => rClosed'
       /\ \A t \in Readers : CallOnClosed(t) /\ rres'[t].op # "geturl" => FailsAtOnce(t)]_vars

\* The getinfo call of reader t has ended, on an instance that was open for
\* the whole call.
GetinfoEnded(t) == rpc[t] = "done" /\ rres[t].op = "getinfo" /\ ~rres[t].sawClosed

\* The archive holds an entry under the name the path maps to.
HasRecord(path) ==
    \E i \in 1..Len(namelist) : namelist[i] = path_to_zip_name(dirNodes, path)

\* getinfo raises ResourceNotFound exactly for the paths missing from the
\* index; for a directory other than the root with no record under its
\* mapped name a request for details, access or zip is answered with the
\* basic namespace alone; details.type, when given, is the type of the index.
GetinfoByIndex ==
    \A t \in Readers :
        GetinfoEnded(t) =>
            LET r == rres[t]
                kind == IndexKind(dirNodes, r.path)
            IN  /\ r.out = "ResourceNotFound" <=> kind = "missing"
                /\ kind # "missing" => r.out = "ok" /\ "basic" \in r.info /\ (r.isdir <=> kind = "dir")
                /\ kind = "dir" /\ normpath(r.path) # <<Sep>> /\ ~HasRecord(r.path) => r.info = {"basic"}
                /\ "details" \in r.info => r.dtype = (IF kind = "dir" THEN "directory" ELSE "file")

\* C13 as claimed: getinfo(path, namespaces) raises ResourceNotFound iff the
\* path is missing from the index; for an implied directory, which has no
\* record under its mapped name, a request for details, access or zip does
\* not fail and returns the basic namespace alone; details.type follows the
\* index.
C13_GetinfoNamespaces == GetinfoByIndex

\* C13 as amended: the same, over an archive whose entry list names no path
\* both as a file and as a directory (over any other archive the call may
\* raise DirectoryExpected out of the construction of the index).
C13_GetinfoNamespacesConsistent == Consistent(namelist) => GetinfoByIndex

\* C13 witness: over an archive holding a/b and no a/, getinfo of /a with
\* the details namespace asked for has returned the basic namespace alone.
C13_Witness ==
    /\ Consistent(namelist)
    /\ \E i \in 1..Len(namelist) : namelist[i] = <<"a", Sep, "b">>
    /\ \E t \in Readers :
          /\ GetinfoEnded(t)
          /\ rres[t].path = <<Sep, "a">>
          /\ "details" \in rres[t].ns
          /\ rres[t].out = "ok" /\ rres[t].isdir /\ rres[t].info = {"basic"}

\* The flushes that have been started: the calls that invoked
\* compress.write_zip, finished or in progress.
Flushed == { t \in Threads : wres[t].flushed }

\* C14: a compression or encoding passed to write_zip() is the one that call
\* hands to compress.write_zip, for every value (ZIP_STORED, which is 0,
\* included); an argument left out stands for the instance's setting, which
\* no call changes, so that later write_zip() and close() calls use it.
C14_ArgumentsOverride ==
    [][/\ UNCHANGED <<compression, encoding>>
       /\ \A t \in Flushed :
             /\ wres[t].compression = IF wres[t].compressionArg # None THEN wres[t].compressionArg
                                      ELSE compression
             /\ wres[t].encoding = IF wres[t].encodingArg # None THEN wres[t].encodingArg
                                   ELSE encoding]_vars

\* The same for every compression but ZIP_STORED.
ArgumentsOverrideButStored ==
    [][/\ UNCHANGED <<compression, encoding>>
       /\ \A t \in Flushed :
             /\ wres[t].compressionArg # ZIP_STORED =>
                   wres[t].compression = IF wres[t].compressionArg # None THEN wres[t].compressionArg
                                         ELSE compression
             /\ wres[t].encoding = IF wres[t].encodingArg # None THEN wres[t].encodingArg
                                   ELSE encoding]_vars

\* No thread is inside close().
NoCloseInProgress == \A t \in Threads : wpc[t] \notin {"c_try", "c_flushing", "c_finally", "c_super"}

\* C18: between operations, with no close() in progress, a WriteZipFS whose
\* scratch backend has been closed is itself marked closed, also after a
\* close() whose serialization failed.
C18_ReleasedImpliesClosed == NoCloseInProgress /\ tempClosed => wClosed

\* The same as long as no flush started by close() has failed.
ReleasedImpliesClosedUnlessFailed == NoCloseInProgress /\ NoCloseFailed /\ tempClosed => wClosed

\* Bits 16 to 27 of an attribute, counted from the lowest: the high half
\* without its top four bits.
Bits16To27(external_attr) == external_attr.hi - 4096 * (external_attr.hi \div 4096)

\* C16: getinfo asked for the access namespace gives access.permissions if
\* and only if the archive has a record under the mapped name whose
\* create_system is 3 and whose external_attr is not zero, and the mode is
\* then (external_attr >> 16) & 0xFFF; a record of any other origin system
\* never gives permissions, whatever its attribute bits.
C16_PermissionsPosixOnly ==
    \A t \in Readers :
        GetinfoEnded(t) =>
            LET r == rres[t]
                z == ZipGetInfo(path_to_zip_name(dirNodes, r.path))
                populated == "access" \in r.info
            IN  /\ populated <=>
                      /\ "access" \in r.ns
                      /\ z.err = "none"
                      /\ z.rec.create_system = 3
                      /\ z.rec.external_attr # Attr(0, 0)
                /\ r.perm = IF populated THEN Bits16To27(z.rec.external_attr) ELSE -1

\* C16 witness: a record made on UNIX for a regular file of mode 0644
\* (0x81A40000) has given the permissions 0644, which is 420.
C16_Witness ==
    \E t \in Readers :
        /\ GetinfoEnded(t)
        /\ "access" \in rres[t].info
        /\ ZipGetInfo(rres[t].zipname).rec = ZipInfo(3, Attr(33188, 0))
        /\ rres[t].perm = 420

\* The readbytes call of reader t has ended, on an instance that was open
\* for the whole call.
ReadbytesEnded(t) == rpc[t] = "done" /\ rres[t].op = "readbytes" /\ ~rres[t].sawClosed

\* readbytes returns bytes for the files of the index and raises
\* ResourceNotFound for every other path, so that, asked for one path,
\* readbytes returns exactly when openbin in read mode does.
ReadbytesByIndex ==
    /\ \A t \in Readers :
          ReadbytesEnded(t) =>
              LET kind == IndexKind(dirNodes, rres[t].path)
              IN  /\ kind = "file" => rres[t].out = "ok" /\ rres[t].zipname # <<>>
                  /\ kind # "file" => rres[t].out = "ResourceNotFound" /\ rres[t].errpath = rres[t].path
    /\ \A t, u \in Readers :
          ReadbytesEnded(t) /\ OpenbinReadEnded(u) /\ rres[t].path = rres[u].path =>
              /\ rres[t].out = "ok" <=> rres[u].out = "ok"
              /\ rres[t].out = "ok" => rres[t].zipname = rres[u].zipname
              /\ rres[t].out # "ok" => rres[t].out = "ResourceNotFound"

\* C19 as claimed: on an open ReadZipFS, readbytes returns the bytes of a
\* path exactly when openbin in read mode succeeds on it, which is for the
\* files of the index, and raises ResourceNotFound for every other path:
\* the missing ones and the directories, for which openbin raises
\* FileExpected.
C19_ReadbytesLikeOpenbin == ReadbytesByIndex

\* C19 as amended: the same, over an archive whose entry list names no path
\* both as a file and as a directory (over any other archive either call
\* may raise DirectoryExpected out of the construction of the index).
C19_ReadbytesLikeOpenbinConsistent == Consistent(namelist) => ReadbytesByIndex

\* C19 witness: for the directory /a, readbytes has raised ResourceNotFound
\* and openbin FileExpected.
C19_Witness ==
    /\ Consistent(namelist)
    /\ \E t, u \in Readers :
          /\ ReadbytesEnded(t) /\ rres[t].path = <<Sep, "a">> /\ rres[t].out = "ResourceNotFound"
          /\ OpenbinReadEnded(u) /\ rres[u].path = <<Sep, "a">> /\ rres[u].out = "FileExpected"

\* The names under which the archive stores the path.
StoredNames(path) ==
    { namelist[i] : i \in { j \in 1..Len(namelist) : PathOf(namelist[j]) = PathOf(path) } }

\* Whenever getinfo, asked for details, access or zip, answers for a path
\* the archive has an entry for, the name the path was mapped to is the
\* name of that entry, and the details asked for are given.
MappedNameIsStored ==
    \A t \in Readers :
        GetinfoEnded(t) /\ rres[t].out = "ok" /\ rres[t].ns \cap ArchiveNamespaces # {} =>
            \A name \in StoredNames(rres[t].path) :
                /\ rres[t].zipname = name
                /\ "details" \in rres[t].ns => "details" \in rres[t].info
                /\ "zip" \in rres[t].ns => "zip" \in rres[t].info

\* C20 as claimed: for every entry the archive stores, as p or as p/, the
\* name /p is mapped to is the name of the entry, so that getinfo with
\* details finds the record; namespaces are left out only for directories
\* that are implied and not stored.
C20_StoredEntriesFound == MappedNameIsStored

\* C20 as amended: the same, over an archive whose entry list names no path
\* both as a file and as a directory.
C20_StoredEntriesFoundConsistent == Consistent(namelist) => MappedNameIsStored

\* C20 witness: the archive stores a/, and getinfo of /a with details has
\* looked up a/ and returned the details of a directory.
C20_Witness ==
    /\ Consistent(namelist)
    /\ \E t \in Readers :
          /\ GetinfoEnded(t)
          /\ rres[t].path = <<Sep, "a">>
          /\ StoredNames(rres[t].path) = { <<"a", Sep>> }
          /\ rres[t].zipname = <<"a", Sep>>
          /\ "details" \in rres[t].info
          /\ rres[t].dtype = "directory"

\* The chunks joined.
RECURSIVE Joined(_)
Joined(chunks) == IF chunks = <<>> THEN <<>> ELSE Head(chunks) \o Joined(Tail(chunks))

\* What was left of the file at the call, and what of it the size asked for.
Remaining == SubSeq(fileData, lineArgs.pos + 1, Len(fileData))

Asked ==
    IF lineArgs.size = None \/ lineArgs.size[1] < 0 THEN Remaining
    ELSE SubSeq(Remaining, 1, IF lineArgs.size[1] < Len(Remaining) THEN lineArgs.size[1] ELSE Len(Remaining))

\* The chunks are the bytes asked for, cut after every newline.
ChunksRight ==
    /\ Joined(yielded) = Asked
    /\ \A k \in 1..Len(yielded) : \A i \in 1..Len(yielded[k]) : yielded[k][i] = LF => i = Len(yielded[k])
    /\ \A k \in 1..(Len(yielded) - 1) : yielded[k] # <<>> /\ yielded[k][Len(yielded[k])] = LF

\* C17: line_iterator(file, size) comes to an end on every finite file, and
\* the chunks it has yielded then join to the rest of the file when size is
\* None or negative and to its first min(size, length) bytes otherwise;
\* a chunk holds at most one newline, as its last byte, and every chunk but
\* the last ends with a newline.
C17_LineIterator == [](lpc = "done" => ChunksRight) /\ <>(lpc = "done")

\* C17 witness: the file of the test, cut to x LF LF y, has been iterated
\* without a size into x LF, LF and y.
C17_Witness ==
    /\ lpc = "done"
    /\ lineArgs = [pos |-> 0, size |-> None]
    /\ fileData = <<"x", LF, LF, "y">>
    /\ yielded = << <<"x", LF>>, <<LF>>, <<"y">> >>

\* self._zip.read(zip_name): the bytes of the last entry of that name.
ZipRead(entries, zip_name) ==
    LET found == { i \in 1..Len(entries) : entries[i].name = zip_name }
    IN  IF found = {} THEN [err |-> "KeyError", data |-> <<>>]
        ELSE [err |-> "none", data |-> entries[CHOOSE i \in found : \A j \in found : j <= i].data]

\* The names of the entries, as namelist() gives them.
NamesOf(entries) == [i \in 1..Len(entries) |-> entries[i].name]

\* C15: whatever tree makedir, writebytes and remove have left in the
\* scratch backend when it is flushed, a ReadZipFS over the archive written
\* builds an index with the same paths and the same types, empty directories
\* and directories with files included, and reads the same bytes for every
\* file.
C15_RoundTrip ==
    archive.written =>
        LET index == BuildFrom(EmptyTree, NamesOf(archive.entries))
        IN  /\ index.err = "none"
            /\ index.tree = walked.tree
            /\ \A p \in Files(index.tree) :
                  ZipRead(archive.entries, path_to_zip_name(index.tree, AbsPath(p)))
                      = [err |-> "none", data |-> walked.content[p]]

\* C15 witness: an archive has been written from a scratch tree with the
\* file /a/b of one byte in the directory /a, and the empty directory /b.
C15_Witness ==
    /\ archive.written
    /\ walked.tree = (<<"a">> :> "dir") @@ (<<"a", "b">> :> "file") @@ (<<"b">> :> "dir")
    /\ walked.content[<<"a", "b">>] = <<"x">>

====
